---- MODULE Spec2Model ----
(***************************************************************************)
(* Model of src/slack.ts: the Block helper and the Slack class             *)
(* (generatePayload, notify).                                              *)
(*                                                                         *)
(* Strings are sequences of fragments.  The fragments are chosen so that   *)
(* two fragment sequences are equal exactly when the strings they spell    *)
(* are equal; string concatenation is \o and the empty string is << >>.    *)
(* JavaScript values that may be undefined are tagged records.            *)
(***************************************************************************)
EXTENDS Integers, Sequences, FiniteSets, TLC

VARIABLES
  context,          \* github.context, read once per Block (line 18)
  GITHUB_HEAD_REF,  \* process.env.GITHUB_HEAD_REF (line 93)
  args,             \* arguments of each generatePayload invocation
  pc,               \* position of each invocation
  notificationType, \* local of generatePayload (line 185)
  text,             \* local of generatePayload (line 188)
  baseBlock,        \* local of generatePayload (line 193)
  heap,             \* the arrays created by the baseFields getter
  awaited,          \* the promise generatePayload is suspended on
  lookupReq,        \* arguments of client.repos.getCommit (line 98)
  commit,           \* outcome of client.repos.getCommit (line 98)
  gpResult,         \* settlement of the generatePayload promise
  returned,         \* invocations in the order generatePayload returned
  netlog,           \* network events of each invocation, in order
  sentPayload,      \* body handed to client.send (line 243)
  response,         \* IncomingWebhookResult.text (line 243)
  notifyResult      \* settlement of the notify promise

vars == <<context, GITHUB_HEAD_REF, args, pc, notificationType, text,
          baseBlock, heap, awaited, lookupReq, commit, gpResult, returned,
          netlog, sentPayload, response, notifyResult>>

----------------------------------------------------------------------------
(* JavaScript values *)

Undef == [kind |-> "undefined"]

Str(s) == [kind |-> "string", str |-> s]

None == [kind |-> "none"]

\* ToBoolean of a string-or-undefined value (mention &&, commitFlag && token)
Truthy(v) == v.kind = "string" /\ v.str # << >>

\* conversion done by a template literal: `${v}`
ToStr(v) == IF v.kind = "string" THEN v.str ELSE <<"undefined">>

----------------------------------------------------------------------------
(* Bounds and input sets *)

NumInvocations == 2

ValidStatuses == {"success", "failure", "cancelled"}

Statuses ==
  ValidStatuses \cup {"isPullRequest", "baseFields", "context", "unknown"}

JobNames == { <<"build">>, <<"<!", "here", "> ", "build">> }

Mentions == { << >>, <<"here">> }

MentionConditions == {"always", "success", "failure", "never"}

Tokens == { Undef, Str(<< >>), Str(<<"ghp_token">>) }

Tags == { <<"v1.2.3">> }

Inputs ==
  [ jobName : JobNames, status : Statuses, mention : Mentions,
    mentionCondition : MentionConditions, commitFlag : BOOLEAN,
    isCompactMode : BOOLEAN, isReleaseMode : BOOLEAN,
    created_tag : Tags, token : Tokens ]

Contexts ==
  [ sha : {"abc123"}, eventName : {"push", "pull_request"},
    workflow : {"CI"}, ref : {"refs/heads/master"}, actor : {"octocat"},
    owner : {"weseek"}, repo : {"slatify"}, number : {"7"} ]

\* GITHUB_HEAD_REF is set on pull_request events only
HeadRefs(ctx) ==
  IF ctx.eventName = "pull_request"
    THEN { Str(<<"refs/heads/", "feature">>), Str(<<"feature">>) }
    ELSE { Undef }

AckTexts == { <<"ok">>, << >>, <<"ok", " ">>, <<"error: invalid_payload">> }

Commits ==
  [ kind : {"data"},
    message : { <<"Fix bug", "\n", "details">> },
    html_url : {"https://github.com/weseek/slatify/commit/abc123"},
    author : { Undef,
               [kind |-> "object", login |-> "octocat",
                html_url |-> "https://github.com/octocat"] } ]

Malformed == [kind |-> "malformed"]

HttpError == [name |-> "HttpError", message |-> <<"Not Found">>]

SendError == [name |-> "Error", message |-> <<"A request error occurred">>]

LookupResponses == Commits \cup {Malformed, [kind |-> "error", error |-> HttpError]}

----------------------------------------------------------------------------
(* class Block *)

success == [kind |-> "object", color |-> Str(<<"#2cbe4e">>), result |-> Str(<<"Succeeded">>)]

\* the failure accessory carrying the color of cancelled
failure_Swapped == [kind |-> "object", color |-> Str(<<"#ffc107">>), result |-> Str(<<"Failed">>)]

failure == [kind |-> "object", color |-> Str(<<"#cb2431">>), result |-> Str(<<"Failed">>)]

cancelled == [kind |-> "object", color |-> Str(<<"#ffc107">>), result |-> Str(<<"Cancelled">>)]

isPullRequest(ctx) == ctx.eventName = "pull_request"

\* slackBlockUI[status]: a property read on the Block instance by a runtime key
BlockGet(status, ctx) ==
  CASE status = "success" -> success
    [] status = "failure" -> failure
    [] status = "cancelled" -> cancelled
    [] status = "isPullRequest" -> [kind |-> "boolean", val |-> isPullRequest(ctx)]
    [] status = "baseFields" -> [kind |-> "array"]
    [] status = "context" -> [kind |-> "context"]
    [] OTHER -> Undef

\* v.color / v.result: only an Accessory has these properties
GetProp(v, name) ==
  IF v.kind = "object"
    THEN (IF name = "color" THEN v.color ELSE v.result)
    ELSE Undef

repoUrl(ctx) == <<"https://github.com/", ctx.owner, "/", ctx.repo>>

Mrkdwn(t) == [type |-> "mrkdwn", text |-> t]

baseFields(ctx) ==
  LET eventUrl ==
        IF isPullRequest(ctx)
          THEN <<"<">> \o repoUrl(ctx) \o <<"/pull/", ctx.number, "|", ctx.eventName, ">">>
          ELSE <<ctx.eventName>>
      actionUrl ==
        IF isPullRequest(ctx)
          THEN repoUrl(ctx) \o <<"/pull/", ctx.number, "/checks">>
          ELSE repoUrl(ctx) \o <<"/commit/", ctx.sha, "/checks">>
  IN << Mrkdwn(<<"*repository*\n", "<">> \o repoUrl(ctx) \o <<"|", ctx.owner, "/", ctx.repo, ">">>),
        Mrkdwn(<<"*ref*\n", ctx.ref>>),
        Mrkdwn(<<"*event name*\n">> \o eventUrl),
        Mrkdwn(<<"*workflow*\n", "<">> \o actionUrl \o <<"|", ctx.workflow, ">">>) >>

\* s.replace(/refs\/heads\//, ''): drops the first occurrence only
RECURSIVE StripHeads(_)
StripHeads(s) ==
  IF s = << >> THEN << >>
  ELSE IF Head(s) = "refs/heads/" THEN Tail(s)
  ELSE <<Head(s)>> \o StripHeads(Tail(s))

\* the ref getCommitFields asks for (lines 94-96)
CommitRef(ctx, headRef) ==
  IF isPullRequest(ctx) THEN StripHeads(headRef.str) ELSE <<ctx.sha>>

\* message.split('\n')[0]
RECURSIVE FirstLine(_)
FirstLine(s) ==
  IF s = << >> \/ Head(s) = "\n" THEN << >>
  ELSE <<Head(s)>> \o FirstLine(Tail(s))

\* lines 100-117: the fields built from a fetched commit
CommitFieldsOf(data) ==
  LET commitField ==
        Mrkdwn(<<"*commit*\n", "<", data.html_url, "|">> \o FirstLine(data.message) \o <<">">>)
      authorField ==
        Mrkdwn(<<"*author*\n", "<", data.author.html_url, "|", data.author.login, ">">>)
  IN IF data.author # Undef THEN <<commitField, authorField>> ELSE <<commitField>>

TypeError(m) == [name |-> "TypeError", message |-> <<m>>]

\* getCommitFields catching its failures and returning no fields
SettleCommit_Swallow(resp) ==
  IF resp.kind = "data"
    THEN [state |-> "fulfilled", value |-> CommitFieldsOf(resp)]
    ELSE [state |-> "fulfilled", value |-> << >>]

\* settlement of the getCommitFields promise for a getCommit outcome
SettleCommit(resp) ==
  CASE resp.kind = "error" -> [state |-> "rejected", value |-> resp.error]
    [] resp.kind = "malformed" ->
         [state |-> "rejected",
          value |-> TypeError("Cannot read property 'message' of undefined")]
    [] OTHER -> [state |-> "fulfilled", value |-> CommitFieldsOf(resp)]

getCompactModeTextField(ctx, result) ==
  LET actionUrl == repoUrl(ctx) \o <<"/commit/", ctx.sha, "/checks">>
  IN Mrkdwn(<<"[<">> \o repoUrl(ctx) \o <<"|", ctx.owner, "/", ctx.repo, ">] ">>
            \o ToStr(result) \o <<" by ", ctx.actor, " on ", ctx.ref, ", check <">>
            \o actionUrl \o <<"|", ctx.workflow, ">">>)

getReleaseModeTextField(created_tag) ==
  Mrkdwn(<<"https://github.com/weseek/growi/releases/tag/">> \o created_tag)

----------------------------------------------------------------------------
(* class Slack *)

\* isMention without the "condition === status" alternative
isMention_AlwaysOnly(condition, status) == condition = "always"

isMention(condition, status) == condition = "always" \/ condition = status

\* lines 187-191
Text(a, result) ==
  LET tmpText == a.jobName \o <<" ">> \o ToStr(result)
  IN IF a.mention # << >> /\ isMention(a.mentionCondition, a.status)
       THEN <<"<!">> \o a.mention \o <<"> ">> \o tmpText
       ELSE tmpText

\* both flags set falling through to the fields branch
Mode_BothFull(a) ==
  IF a.isCompactMode /\ ~a.isReleaseMode THEN "compact"
  ELSE IF a.isReleaseMode /\ ~a.isCompactMode THEN "release"
  ELSE "full"

\* the branch taken at lines 197-207
Mode(a) ==
  IF a.isCompactMode THEN "compact"
  ELSE IF a.isReleaseMode THEN "release"
  ELSE "full"

\* line 210 without the token test
ShouldEnrich_FlagOnly(a) == a.commitFlag

\* line 210
ShouldEnrich(a) == a.commitFlag /\ Truthy(a.token)

\* baseFields handing out one cached array instead of a new one per read
NewArray_Shared(h, elems) ==
  IF h = << >> THEN [heap |-> <<elems>>, ref |-> 1] ELSE [heap |-> h, ref |-> 1]

\* a fresh array object: every read of baseFields builds a new one
NewArray(h, elems) == [heap |-> Append(h, elems), ref |-> Len(h) + 1]

\* unshift in place of push
PushApply_Front(arr, items) == items \o arr

\* Array.prototype.push.apply(arr, items)
PushApply(arr, items) == arr \o items

\* lines 218-227
Payload(txt, nt, block) ==
  [ text |-> txt,
    attachments |-> << [color |-> GetProp(nt, "color"), blocks |-> <<block>>] >>,
    unfurl_links |-> TRUE ]

\* a prefix test in place of the strict comparison of line 245
IsOk_Prefix(t) == t # << >> /\ Head(t) = "ok"

\* line 245
IsOk(t) == t = <<"ok">>

\* lines 246-249
DeliveryError(t) ==
  [ name |-> "Error",
    message |-> <<"\n      Failed to send notification to Slack\n      Response: ">>
                \o t \o <<"\n      ">> ]

----------------------------------------------------------------------------
(* State *)

Invocations == DOMAIN args

Block0 == [type |-> "section"]

InitWith(n, inputs) ==
  /\ context \in Contexts
  /\ GITHUB_HEAD_REF \in HeadRefs(context)
  /\ args \in [1..n -> inputs]
  /\ pc = [i \in 1..n |-> "start"]
  /\ notificationType = [i \in 1..n |-> None]
  /\ text = [i \in 1..n |-> << >>]
  /\ baseBlock = [i \in 1..n |-> None]
  /\ heap = << >>
  /\ awaited = [i \in 1..n |-> [state |-> "none"]]
  /\ lookupReq = [i \in 1..n |-> None]
  /\ commit = [i \in 1..n |-> None]
  /\ gpResult = [i \in 1..n |-> None]
  /\ returned = << >>
  /\ netlog = [i \in 1..n |-> << >>]
  /\ sentPayload = [i \in 1..n |-> None]
  /\ response = [i \in 1..n |-> None]
  /\ notifyResult = [i \in 1..n |-> None]

Init == InitWith(1, Inputs)

----------------------------------------------------------------------------
(* Operations *)

\* the payload as a value: the block's fields reference replaced by the array
Deref(p, h) ==
  LET att == p.attachments[1]
      b == att.blocks[1]
      blk == IF "fields" \in DOMAIN b
               THEN [type |-> b.type, fields |-> h[b.fields]]
               ELSE b
  IN [p EXCEPT !.attachments = << [att EXCEPT !.blocks = <<blk>>] >>]

Log(i, ev) == netlog' = [netlog EXCEPT ![i] = Append(@, ev)]

\* generatePayload returns (line 229)
Return(i, nt, txt, block) ==
  /\ gpResult' = [gpResult EXCEPT ![i] =
                    [kind |-> "payload", payload |-> Payload(txt, nt, block)]]
  /\ returned' = Append(returned, i)
  /\ pc' = [pc EXCEPT ![i] = "gpReturned"]

\* generatePayload rejects with error e
Throw(i, e) ==
  /\ gpResult' = [gpResult EXCEPT ![i] = [kind |-> "error", error |-> e]]
  /\ pc' = [pc EXCEPT ![i] = "gpThrew"]
  /\ UNCHANGED returned

\* generatePayload from its call to its first await, or to its end when it
\* awaits nothing (lines 184-216 and, without a commit lookup, 218-229)
GeneratePayload(i) ==
  /\ pc[i] = "start"
  /\ LET a == args[i]
         nt == BlockGet(a.status, context)
         result == GetProp(nt, "result")
         txt == Text(a, result)
     IN IF nt = Undef
          THEN /\ Throw(i, TypeError("Cannot destructure property 'result' of 'notificationType' as it is undefined."))
               /\ UNCHANGED <<notificationType, text, baseBlock, heap, awaited,
                              lookupReq, netlog>>
          ELSE /\ notificationType' = [notificationType EXCEPT ![i] = nt]
               /\ text' = [text EXCEPT ![i] = txt]
               /\ CASE Mode(a) = "compact" ->
                         /\ baseBlock' = [baseBlock EXCEPT ![i] = Block0]
                         /\ awaited' = [awaited EXCEPT ![i] =
                              [state |-> "fulfilled",
                               value |-> getCompactModeTextField(context, result)]]
                         /\ pc' = [pc EXCEPT ![i] = "awaitCompact"]
                         /\ UNCHANGED <<heap, lookupReq, netlog, gpResult, returned>>
                    [] Mode(a) = "release" ->
                         /\ baseBlock' = [baseBlock EXCEPT ![i] = Block0]
                         /\ awaited' = [awaited EXCEPT ![i] =
                              [state |-> "fulfilled",
                               value |-> getReleaseModeTextField(a.created_tag)]]
                         /\ pc' = [pc EXCEPT ![i] = "awaitRelease"]
                         /\ UNCHANGED <<heap, lookupReq, netlog, gpResult, returned>>
                    [] OTHER ->
                         LET arr == NewArray(heap, baseFields(context))
                             blk == [type |-> "section", fields |-> arr.ref]
                         IN /\ heap' = arr.heap
                            /\ baseBlock' = [baseBlock EXCEPT ![i] = blk]
                            /\ IF ShouldEnrich(a)
                                 THEN /\ lookupReq' = [lookupReq EXCEPT ![i] =
                                           [owner |-> context.owner, repo |-> context.repo,
                                            ref |-> CommitRef(context, GITHUB_HEAD_REF),
                                            auth |-> a.token]]
                                      /\ Log(i, "lookup:start")
                                      /\ awaited' = [awaited EXCEPT ![i] = [state |-> "pending"]]
                                      /\ pc' = [pc EXCEPT ![i] = "awaitCommitFields"]
                                      /\ UNCHANGED <<gpResult, returned>>
                                 ELSE /\ Return(i, nt, txt, blk)
                                      /\ UNCHANGED <<awaited, lookupReq, netlog>>
  /\ UNCHANGED <<context, GITHUB_HEAD_REF, args, commit, sentPayload, response, notifyResult>>

\* generatePayload resumes with the compact text field (lines 201, 218-229)
ResumeCompact(i) ==
  /\ pc[i] = "awaitCompact"
  /\ LET blk == [type |-> "section", text |-> awaited[i].value]
     IN /\ baseBlock' = [baseBlock EXCEPT ![i] = blk]
        /\ Return(i, notificationType[i], text[i], blk)
  /\ UNCHANGED <<context, GITHUB_HEAD_REF, args, commit, notificationType, text, heap,
                 awaited, lookupReq, netlog, sentPayload, response, notifyResult>>

\* generatePayload resumes with the release text field (lines 206, 218-229)
ResumeRelease(i) ==
  /\ pc[i] = "awaitRelease"
  /\ LET blk == [type |-> "section", text |-> awaited[i].value]
     IN /\ baseBlock' = [baseBlock EXCEPT ![i] = blk]
        /\ Return(i, notificationType[i], text[i], blk)
  /\ UNCHANGED <<context, GITHUB_HEAD_REF, args, commit, notificationType, text, heap,
                 awaited, lookupReq, netlog, sentPayload, response, notifyResult>>

\* client.repos.getCommit settles and getCommitFields runs to its end
\* (lines 98-117)
GetCommitResponse(i) ==
  /\ awaited[i].state = "pending"
  /\ \E resp \in LookupResponses :
       /\ commit' = [commit EXCEPT ![i] = resp]
       /\ awaited' = [awaited EXCEPT ![i] = SettleCommit(resp)]
  /\ Log(i, "lookup:end")
  /\ UNCHANGED <<context, GITHUB_HEAD_REF, args, pc, notificationType, text,
                 baseBlock, heap, lookupReq, gpResult, returned, sentPayload,
                 response, notifyResult>>

\* generatePayload going on without awaiting getCommitFields: the pending
\* promise has no elements to push
ResumeCommitFields_NoAwait(i) ==
  /\ pc[i] = "awaitCommitFields"
  /\ IF awaited[i].state = "rejected"
       THEN /\ Throw(i, awaited[i].value)
            /\ UNCHANGED heap
       ELSE /\ heap' = [heap EXCEPT ![baseBlock[i].fields] =
                          IF awaited[i].state = "fulfilled"
                            THEN PushApply(@, awaited[i].value) ELSE @]
            /\ Return(i, notificationType[i], text[i], baseBlock[i])
  /\ UNCHANGED <<context, GITHUB_HEAD_REF, args, commit, notificationType, text, baseBlock,
                 awaited, lookupReq, netlog, sentPayload, response, notifyResult>>

\* generatePayload resumes from await getCommitFields (lines 211-229)
ResumeCommitFields(i) ==
  /\ pc[i] = "awaitCommitFields"
  /\ awaited[i].state # "pending"
  /\ IF awaited[i].state = "rejected"
       THEN /\ Throw(i, awaited[i].value)
            /\ UNCHANGED heap
       ELSE /\ heap' = [heap EXCEPT ![baseBlock[i].fields] = PushApply(@, awaited[i].value)]
            /\ Return(i, notificationType[i], text[i], baseBlock[i])
  /\ UNCHANGED <<context, GITHUB_HEAD_REF, args, commit, notificationType, text, baseBlock,
                 awaited, lookupReq, netlog, sentPayload, response, notifyResult>>

\* notify is called with the payload generatePayload returned and runs to
\* await client.send (lines 242-243)
Notify(i) ==
  /\ pc[i] = "gpReturned"
  /\ sentPayload' = [sentPayload EXCEPT ![i] = Deref(gpResult[i].payload, heap)]
  /\ Log(i, "send:start")
  /\ pc' = [pc EXCEPT ![i] = "awaitSend"]
  /\ UNCHANGED <<context, GITHUB_HEAD_REF, args, commit, notificationType, text, baseBlock,
                 heap, awaited, lookupReq, gpResult, returned, response, notifyResult>>

\* client.send resolves with an acknowledgement (lines 243-251)
WebhookResponse(i) ==
  /\ pc[i] = "awaitSend"
  /\ \E t \in AckTexts :
       /\ response' = [response EXCEPT ![i] = Str(t)]
       /\ IF IsOk(t)
            THEN /\ notifyResult' = [notifyResult EXCEPT ![i] = [kind |-> "ok"]]
                 /\ pc' = [pc EXCEPT ![i] = "done"]
            ELSE /\ notifyResult' = [notifyResult EXCEPT ![i] =
                                       [kind |-> "error", error |-> DeliveryError(t)]]
                 /\ pc' = [pc EXCEPT ![i] = "notifyThrew"]
  /\ Log(i, "send:end")
  /\ UNCHANGED <<context, GITHUB_HEAD_REF, args, commit, notificationType, text, baseBlock,
                 heap, awaited, lookupReq, gpResult, returned, sentPayload>>

\* client.send rejects: the await at line 243 throws
WebhookFailure(i) ==
  /\ pc[i] = "awaitSend"
  /\ notifyResult' = [notifyResult EXCEPT ![i] = [kind |-> "error", error |-> SendError]]
  /\ pc' = [pc EXCEPT ![i] = "notifyThrew"]
  /\ Log(i, "send:end")
  /\ UNCHANGED <<context, GITHUB_HEAD_REF, args, commit, notificationType, text, baseBlock,
                 heap, awaited, lookupReq, gpResult, returned, sentPayload, response>>

Next ==
  \/ \E i \in Invocations : GeneratePayload(i)
  \/ \E i \in Invocations : ResumeCompact(i)
  \/ \E i \in Invocations : ResumeRelease(i)
  \/ \E i \in Invocations : GetCommitResponse(i)
  \/ \E i \in Invocations : ResumeCommitFields(i)
  \/ \E i \in Invocations : Notify(i)
  \/ \E i \in Invocations : WebhookResponse(i)
  \/ \E i \in Invocations : WebhookFailure(i)

Spec == Init /\ [][Next]_vars

\* two or more invocations on one Slack object, interleaved at their awaits
ConcInputs ==
  { a \in Inputs : /\ a.jobName = <<"build">>
                   /\ a.status = "failure"
                   /\ a.mention = <<"here">>
                   /\ a.mentionCondition = "failure"
                   /\ a.token = Str(<<"ghp_token">>) }

InitConc == InitWith(NumInvocations, ConcInputs)

NextConc ==
  \/ \E i \in Invocations : GeneratePayload(i)
  \/ \E i \in Invocations : ResumeCompact(i)
  \/ \E i \in Invocations : ResumeRelease(i)
  \/ \E i \in Invocations : GetCommitResponse(i)
  \/ \E i \in Invocations : ResumeCommitFields(i)

SpecConc == InitConc /\ [][NextConc]_vars

----------------------------------------------------------------------------
(* Properties *)

HasPayload(i) == gpResult[i].kind = "payload"

PayloadOf(i) == Deref(gpResult[i].payload, heap)

BlockOf(i) == PayloadOf(i).attachments[1].blocks[1]

Valid(i) == args[i].status \in ValidStatuses

FullMode(i) == ~args[i].isCompactMode /\ ~args[i].isReleaseMode

StartsWith(s, prefix) ==
  Len(prefix) <= Len(s) /\ SubSeq(s, 1, Len(prefix)) = prefix

Contains(s, sub) ==
  \E k \in 1..(Len(s) + 1) :
    k + Len(sub) - 1 <= Len(s) /\ SubSeq(s, k, k + Len(sub) - 1) = sub

\* the fixed pair of each status, as the specification lists it
Pair(status) ==
  CASE status = "success" -> [color |-> <<"#2cbe4e">>, label |-> <<"Succeeded">>]
    [] status = "failure" -> [color |-> <<"#cb2431">>, label |-> <<"Failed">>]
    [] status = "cancelled" -> [color |-> <<"#ffc107">>, label |-> <<"Cancelled">>]

Marker(i) == <<"<!">> \o args[i].mention \o <<"> ">>

PlainText(i) == args[i].jobName \o <<" ">> \o Pair(args[i].status).label

WantMention(i) ==
  /\ args[i].mention # << >>
  /\ \/ args[i].mentionCondition = "always"
     \/ args[i].mentionCondition = args[i].status

Labels(fields) == [k \in 1..Len(fields) |-> Head(fields[k].text)]

ContextLabels == <<"*repository*\n", "*ref*\n", "*event name*\n", "*workflow*\n">>

Enriched(fields) ==
  \E k \in 1..Len(fields) : Head(fields[k].text) \in {"*commit*\n", "*author*\n"}

IsPrefix(s, t) == Len(s) <= Len(t) /\ SubSeq(t, 1, Len(s)) = s

\* C1: a status outside {success, failure, cancelled} makes generatePayload
\* fail with an error, with no network call and no payload.
C1_InvalidStatusFailsFast ==
  \A i \in Invocations :
    (~Valid(i) /\ pc[i] # "start") =>
      /\ gpResult[i].kind = "error"
      /\ netlog[i] = << >>

\* C2 as stated: with a valid status the text starts with "<!mention> " if
\* and only if the mention is non-empty and the condition is "always" or the
\* status; otherwise the text is exactly "<jobName> <resultLabel>".
C2_StartsWithMarkerIff ==
  \A i \in Invocations :
    (Valid(i) /\ HasPayload(i)) =>
      /\ StartsWith(PayloadOf(i).text, Marker(i)) <=> WantMention(i)
      /\ ~WantMention(i) => PayloadOf(i).text = PlainText(i)

\* C2 amended: with a valid status the text is exactly
\* "<!mention> <jobName> <resultLabel>" if and only if the mention is
\* non-empty and the condition is "always" or the status; otherwise it is
\* exactly "<jobName> <resultLabel>".
C2_MentionPrependedIff ==
  \A i \in Invocations :
    (Valid(i) /\ HasPayload(i)) =>
      /\ PayloadOf(i).text = Marker(i) \o PlainText(i) <=> WantMention(i)
      /\ ~WantMention(i) => PayloadOf(i).text = PlainText(i)

C2_Witness ==
  \E i \in Invocations :
    /\ Valid(i) /\ HasPayload(i)
    /\ args[i].mention # << >>
    /\ args[i].mentionCondition = args[i].status
    /\ PayloadOf(i).text = Marker(i) \o PlainText(i)

\* C3: notify completes successfully if and only if the acknowledgement text
\* is exactly "ok"; for any other acknowledgement text it raises an error
\* whose message contains that text.
C3_DeliveryOkIff ==
  \A i \in Invocations :
    /\ notifyResult[i].kind = "ok" => response[i] = Str(<<"ok">>)
    /\ response[i].kind = "string" =>
         IF response[i].str = <<"ok">>
           THEN notifyResult[i].kind = "ok"
           ELSE /\ notifyResult[i].kind = "error"
                /\ Contains(notifyResult[i].error.message, response[i].str)
                /\ Len(notifyResult[i].error.message) > Len(response[i].str)

C3_Witness ==
  \E i \in Invocations :
    /\ pc[i] = "notifyThrew"
    /\ response[i] = Str(<<"ok", " ">>)
    /\ notifyResult[i].kind = "error"

\* C4: in Full mode the payload has commit enrichment fields if and only if
\* commitFlag is true and the token is non-empty; with commitFlag true and
\* the token absent or empty no lookup is made, no error is raised and the
\* payload has the context fields only.
C4_EnrichedIffFlagAndToken ==
  \A i \in Invocations :
    /\ (FullMode(i) /\ HasPayload(i)) =>
         (Enriched(BlockOf(i).fields) <=>
            (args[i].commitFlag /\ args[i].token \notin {Undef, Str(<< >>)}))
    /\ (FullMode(i) /\ Valid(i) /\ pc[i] # "start"
        /\ args[i].commitFlag /\ args[i].token \in {Undef, Str(<< >>)}) =>
         /\ HasPayload(i)
         /\ ~("lookup:start" \in {netlog[i][k] : k \in 1..Len(netlog[i])})
         /\ Labels(BlockOf(i).fields) = ContextLabels

C4_Witness ==
  \E i \in Invocations :
    /\ FullMode(i) /\ HasPayload(i)
    /\ args[i].commitFlag /\ args[i].token = Str(<< >>)
    /\ Labels(BlockOf(i).fields) = ContextLabels

\* C5: in Full mode the field sequence is [repository, ref, event, workflow]
\* followed by nothing, by [commit] or by [commit, author]; the author field
\* is there exactly when the fetched commit exposes an author.
C5_FieldOrder ==
  \A i \in Invocations :
    (FullMode(i) /\ HasPayload(i)) =>
      LET ls == Labels(BlockOf(i).fields)
      IN /\ ls \in { ContextLabels,
                     ContextLabels \o <<"*commit*\n">>,
                     ContextLabels \o <<"*commit*\n", "*author*\n">> }
         /\ "*author*\n" \in {ls[k] : k \in 1..Len(ls)} <=>
              (commit[i].kind = "data" /\ commit[i].author # Undef)

C5_Witness ==
  \E i \in Invocations :
    /\ FullMode(i) /\ HasPayload(i)
    /\ isPullRequest(context)
    /\ Labels(BlockOf(i).fields) = ContextLabels \o <<"*commit*\n", "*author*\n">>

\* C6: whenever compactMode or releaseMode is true the single section block
\* has exactly one text field and no fields list; when both are false it has
\* a fields list and no text field.
C6_OneRenderingMode ==
  \A i \in Invocations :
    HasPayload(i) =>
      LET p == gpResult[i].payload
          b == p.attachments[1].blocks[1]
      IN /\ Len(p.attachments) = 1
         /\ Len(p.attachments[1].blocks) = 1
         /\ b.type = "section"
         /\ IF args[i].isCompactMode \/ args[i].isReleaseMode
              THEN /\ DOMAIN b = {"type", "text"}
                   /\ b.text.type = "mrkdwn"
              ELSE DOMAIN b = {"type", "fields"}

C6_Witness ==
  \E i \in Invocations :
    /\ HasPayload(i)
    /\ args[i].isCompactMode /\ args[i].isReleaseMode
    /\ args[i].commitFlag /\ Truthy(args[i].token)
    /\ DOMAIN gpResult[i].payload.attachments[1].blocks[1] = {"type", "text"}

\* C7: one invocation makes at most one commit lookup and at most one
\* webhook delivery, never both in flight; the delivery starts only after
\* the lookup has returned.
C7_NetworkCallsSequential ==
  \A i \in Invocations :
    \/ IsPrefix(netlog[i], <<"lookup:start", "lookup:end", "send:start", "send:end">>)
    \/ IsPrefix(netlog[i], <<"send:start", "send:end">>)

C7_Witness ==
  \E i \in Invocations :
    netlog[i] = <<"lookup:start", "lookup:end", "send:start", "send:end">>

\* C8: a failed commit lookup reaches the caller of generatePayload
\* unchanged; the lookup is made once, no payload is returned and nothing is
\* delivered.
C8_LookupFailurePropagates ==
  \A i \in Invocations :
    commit[i].kind \in {"error", "malformed"} =>
      /\ netlog[i] = <<"lookup:start", "lookup:end">>
      /\ ~HasPayload(i)
      /\ sentPayload[i] = None
      /\ pc[i] \in {"awaitCommitFields", "gpThrew"}
      /\ pc[i] = "gpThrew" =>
           /\ gpResult[i].kind = "error"
           /\ commit[i].kind = "error" => gpResult[i].error = commit[i].error
           /\ commit[i].kind = "malformed" => gpResult[i].error.name = "TypeError"

C8_Witness ==
  \E i \in Invocations :
    /\ commit[i].kind = "error"
    /\ pc[i] = "gpThrew"
    /\ gpResult[i].error = HttpError

\* C9: for every valid status and every rendering mode the attachment color
\* and the result label of the summary text are the fixed pair of the status.
C9_FixedAccessory ==
  \A i \in Invocations :
    (Valid(i) /\ HasPayload(i)) =>
      LET p == PayloadOf(i)
          want == Pair(args[i].status)
      IN /\ p.attachments[1].color = Str(want.color)
         /\ p.text \in { PlainText(i), Marker(i) \o PlainText(i) }
         /\ SubSeq(p.text, Len(p.text), Len(p.text)) = want.label

C9_Witness ==
  \E i \in Invocations :
    /\ HasPayload(i)
    /\ args[i].status = "failure"
    /\ args[i].isReleaseMode
    /\ PayloadOf(i).attachments[1].color = Str(<<"#cb2431">>)

\* the payload an invocation returns when nothing else runs, given its
\* arguments, the context and the outcome of its commit lookup
RunAlone(a, ctx, data) ==
  LET nt == BlockGet(a.status, ctx)
      result == GetProp(nt, "result")
      blk == CASE Mode(a) = "compact" ->
                    [type |-> "section", text |-> getCompactModeTextField(ctx, result)]
               [] Mode(a) = "release" ->
                    [type |-> "section", text |-> getReleaseModeTextField(a.created_tag)]
               [] OTHER ->
                    [type |-> "section",
                     fields |-> IF ShouldEnrich(a)
                                  THEN baseFields(ctx) \o CommitFieldsOf(data)
                                  ELSE baseFields(ctx)]
  IN Payload(Text(a, result), nt, blk)

\* C10: every payload returned by one of several interleaved invocations
\* equals the payload the invocation returns when run alone; appending the
\* commit fields of one invocation changes no other invocation's fields.
C10_NoSharedState ==
  \A i \in Invocations :
    HasPayload(i) => PayloadOf(i) = RunAlone(args[i], context, commit[i])

C10_Witness ==
  \E i, j \in Invocations :
    /\ i # j
    /\ HasPayload(i) /\ HasPayload(j)
    /\ FullMode(i) /\ FullMode(j)
    /\ Len(BlockOf(i).fields) > Len(BlockOf(j).fields)
    /\ gpResult[i].payload.attachments[1].blocks[1].fields
         < gpResult[j].payload.attachments[1].blocks[1].fields
    /\ returned = <<j, i>>

====
